---- MODULE Spec2Model ----
(***************************************************************************)
(* A model of seispy/postprocess/image.py: the Image and Patch classes,    *)
(* Image._readSW4hdr, Image._readSW4patches, read and parse_filename.      *)
(*                                                                         *)
(* Objects live in a heap (images, lists, patchObjs) so that ownership and *)
(* aliasing are visible.  The byte stream of a file is revealed as it is   *)
(* read: each np.fromfile call returns as many complete items as the       *)
(* stream still holds, and the items' values are drawn when they are read. *)
(*                                                                         *)
(* Numbers that the code halves (h / 2.0) are kept in half units: an       *)
(* extent component e is stored as 2*e, so every value stays an integer    *)
(* and the arithmetic is exact.                                            *)
(***************************************************************************)
EXTENDS Integers, Sequences, FiniteSets, TLC

VARIABLES
    pc,         \* position of the running call
    call,       \* the running call: its entry point and its filename argument
    ncalls,     \* read calls started so far
    image,      \* id of the Image the running call works on
    images,     \* heap: Image objects, id -> fields
    lists,      \* heap: list objects, id -> sequence of Patch ids
    patchObjs,  \* heap: Patch objects, id -> fields
    f,          \* the file object of the running call
    patch_info, \* local of _readSW4patches: the descriptors read
    i,          \* local of _readSW4patches: descriptors consumed by the loop
    exc,        \* the exception in flight, "none" when there is none
    result,     \* how the last call ended
    returned,   \* ids of the Images read has returned, in call order
    log         \* history: the np.fromfile calls of the running call

vars == <<pc, call, ncalls, image, images, lists, patchObjs, f, patch_info,
          i, exc, result, returned, log>>

(***************************************************************************)
(* Bounds of the model.                                                    *)
(***************************************************************************)
MaxPatches == 2
MaxCalls == 2
\* the most samples a stream still holds when a read asks for all of them
MaxRest == 2

\* grid dimensions a descriptor carries (0 gives an empty sample buffer)
Dims == 0 .. 2
\* ni, nj are int32 fields: pairs with a negative value a file can carry
NegativeDims == {d \in (-1 .. 2) \X (-1 .. 2) : d[1] < 0 \/ d[2] < 0}
\* grid spacings a descriptor carries: negative, zero and positive
HVals == {-2, 0, 2}
\* z offset a descriptor carries
ZVals == {-3}
\* first value of a sample buffer; sample k of a buffer holds base + k
SampleBases == {-2}
\* outcomes of np.random.rand
Seeds == {1, 2}

(***************************************************************************)
(* seispy.plotting.dic_and_dtype: the record layouts and lookup tables.    *)
(***************************************************************************)
\* SW4_header_dtype.itemsize: 5 int32, 2 float64 and the creation time
HeaderBytes == 61
\* SW4_patch_dtype.itemsize: h, zmin as float64; ib, ni, jb, nj as int32
PatchDescBytes == 32

\* a Python value as a dictionary key: 0 and 'X' are different keys
DictKey(v) == ToString(v)

prec_dict == (DictKey(4) :> "float32") @@ (DictKey(8) :> "float64")

SW4_plane_dict ==
    (DictKey(0) :> "X") @@ (DictKey(1) :> "Y") @@ (DictKey(2) :> "Z")

SW4_mode_dict ==
    (DictKey(1) :> <<"ux", "m">>) @@ (DictKey(2) :> <<"uy", "m">>)

\* numpy dtype.itemsize
ItemSize(dtype) == IF dtype = "float32" THEN 4 ELSE 8

(***************************************************************************)
(* Inputs.                                                                 *)
(***************************************************************************)
\* A filename: the two sentinels, or a path described by what
\* parse_filename finds in it.
Filenames ==
    { [kind |-> "random", extention |-> "", cycle |-> 0, wellformed |-> TRUE],
      [kind |-> "None", extention |-> "", cycle |-> 0, wellformed |-> TRUE] }
    \cup
    [kind : {"path"}, extention : {".sw4img", ""}, cycle : {5},
     wellformed : BOOLEAN]

\* header records a file can carry
Headers ==
    [precision : {4, 8, 16}, number_of_patches : 0 .. MaxPatches,
     time : {3}, plane : {0, 1, 2, 9}, coordinate : {0}, mode : {1, 2, 99},
     gridinfo : {0}, creation_time : {"Mon Jun 1"}]

\* patch descriptors a file can carry
Descriptors ==
    [h : HVals, zmin : ZVals, ib : {1}, ni : Dims, jb : {1}, nj : Dims]
    \cup
    { [h |-> 2, zmin |-> z, ib |-> 1, ni |-> d[1], jb |-> 1, nj |-> d[2]] :
        z \in ZVals, d \in NegativeDims }

\* a sample buffer of n values
Buffer(base, n) == [k \in 1 .. n |-> base + k]

(***************************************************************************)
(* Image.__init__ and Patch.__init__                                       *)
(***************************************************************************)
\* NewPatchesList as a bug would have it: one list object, made once and
\* bound by every Image (a class attribute, a default argument)
NewPatchesList_shared(id) == 0

\* self.patches = [] : a new list object for every Image
NewPatchesList(id) == id

ImageInit(id) ==
    [filename |-> [kind |-> "None", extention |-> "", cycle |-> 0,
                   wellformed |-> TRUE],
     number_of_patches |-> 1,
     precision |-> 4,
     type |-> "cross-section",
     mode |-> "None",
     unit |-> "None",
     cycle |-> 0,
     time |-> 0,
     plane |-> "X",
     min |-> 0, max |-> 0, std |-> 0, rms |-> 0,
     patches |-> NewPatchesList(id)]

\* extent components are stored doubled: (0,1,0,1) is <<0,2,0,2>>
PatchInit ==
    [number |-> 0, h |-> 0, zmin |-> 1, ib |-> 1, ni |-> 0, jb |-> 1,
     nj |-> 0, extent |-> <<0, 2, 0, 2>>,
     data |-> [shape |-> <<0, 0>>, rows |-> <<>>, rand |-> 0],
     min |-> 0, max |-> 0, std |-> 0, rms |-> 0]

(***************************************************************************)
(* numpy                                                                   *)
(***************************************************************************)
\* x in half units, for a whole number x
Whole(x) == 2 * x
\* x / 2.0 in half units
Half(x) == x

\* np.fromfile(f, dtype, count): the numbers of items a call can return;
\* fewer than count only when the stream ends, and all the stream still
\* holds for a negative count
Available(fh, count) ==
    IF fh.eof THEN {0}
    ELSE IF count < 0 THEN 0 .. MaxRest
    ELSE 0 .. count

\* the file object after np.fromfile returned got items of size bytes each
Advance(fh, got, size, count) ==
    [fh EXCEPT !.pos = @ + got * size,
               !.eof = @ \/ count < 0 \/ got < count]

\* the history entry of one np.fromfile call: where it read, what it asked
\* for and the items it returned
FromfileEvent(what, fh, size, count, items) ==
    [what |-> what, at |-> fh.pos, itemsize |-> size, count |-> count,
     got |-> Len(items), items |-> items]

\* a flat buffer as rows x cols, row-major
Grid(data, rows, cols) ==
    [shape |-> <<rows, cols>>,
     rows |-> [r \in 1 .. rows |->
                 [c \in 1 .. cols |-> data[(r - 1) * cols + c]]],
     rand |-> 0]

NoGrid == [shape |-> <<0, 0>>, rows |-> <<>>, rand |-> 0]

\* ndarray.reshape(rows, cols) of a flat buffer.  A negative dimension is
\* numpy's unknown dimension, fitted to the buffer; at most one may be
\* unknown.  ValueError when the sizes do not fit.
reshape(data, rows, cols) ==
    IF rows < 0 /\ cols < 0
    THEN [ok |-> FALSE, grid |-> NoGrid]
    ELSE IF rows < 0
    THEN IF cols = 0 \/ Len(data) % (IF cols = 0 THEN 1 ELSE cols) # 0
         THEN [ok |-> FALSE, grid |-> NoGrid]
         ELSE [ok |-> TRUE, grid |-> Grid(data, Len(data) \div cols, cols)]
    ELSE IF cols < 0
    THEN IF rows = 0 \/ Len(data) % (IF rows = 0 THEN 1 ELSE rows) # 0
         THEN [ok |-> FALSE, grid |-> NoGrid]
         ELSE [ok |-> TRUE, grid |-> Grid(data, rows, Len(data) \div rows)]
    ELSE IF Len(data) = rows * cols
    THEN [ok |-> TRUE, grid |-> Grid(data, rows, cols)]
    ELSE [ok |-> FALSE, grid |-> NoGrid]

\* ndarray.T of a two-dimensional array
transpose(grid) ==
    [shape |-> <<grid.shape[2], grid.shape[1]>>,
     rows |-> [c \in 1 .. grid.shape[2] |->
                 [r \in 1 .. grid.shape[1] |-> grid.rows[r][c]]],
     rand |-> 0]

RECURSIVE SeqSum(_)
SeqSum(s) == IF s = <<>> THEN 0 ELSE Head(s) + SeqSum(Tail(s))

\* data.min() and data.max() of a non-empty buffer
np_min(data) == CHOOSE m \in {data[k] : k \in 1 .. Len(data)} :
                    \A k \in 1 .. Len(data) : m <= data[k]
np_max(data) == CHOOSE m \in {data[k] : k \in 1 .. Len(data)} :
                    \A k \in 1 .. Len(data) : m >= data[k]
\* data.std() squared, as the fraction <<numerator, denominator>>
np_std2(data) ==
    <<Len(data) * SeqSum([k \in 1 .. Len(data) |-> data[k] * data[k]])
        - SeqSum(data) * SeqSum(data),
      Len(data) * Len(data)>>
\* np.mean(data**2), as the fraction <<numerator, denominator>>; rms is
\* its square root
np_meansq(data) ==
    <<SeqSum([k \in 1 .. Len(data) |-> data[k] * data[k]]), Len(data)>>

(***************************************************************************)
(* Heap                                                                    *)
(***************************************************************************)
Restrict(fn, S) == [x \in DOMAIN fn \cap S |-> fn[x]]

Max(S) == CHOOSE m \in S : \A x \in S : x <= m

\* an id no Patch object has
NewPatchId == 1 + Max(DOMAIN patchObjs \cup {0})

\* ListExtend as a bug would have it: the patch is never added
ListExtend_dropped(l, x) == l

\* list += [x]: the list object is extended in place
ListExtend(l, x) == Append(l, x)

\* the Patch ids in the patches list of Image id
PatchesOf(id) == lists[images[id].patches]

Range(s) == {s[k] : k \in 1 .. Len(s)}

\* CloseOnExit as a bug would have it: f.close() as the last statement of
\* the body instead of a with statement, skipped when the body raises
CloseOnExit_unlessRaised(fh, raised) ==
    IF raised THEN fh ELSE [fh EXCEPT !.state = "closed"]

\* the with statement leaving its body: the file is closed, whether the
\* body ended normally or raised
CloseOnExit(fh, raised) == [fh EXCEPT !.state = "closed"]

NoFile == [state |-> "none", pos |-> 0, eof |-> FALSE]

(***************************************************************************)
(* Image._readSW4hdr                                                       *)
(***************************************************************************)
\* the fields of self after the header tuple is unpacked into them
WithHeader(self, header) ==
    ("_plane" :> header.plane) @@ ("coordinate" :> header.coordinate)
    @@ ("gridinfo" :> header.gridinfo)
    @@ ("creation_time" :> header.creation_time)
    @@ [self EXCEPT !.precision = header.precision,
                    !.number_of_patches = header.number_of_patches,
                    !.time = header.time,
                    !.mode = header.mode]

(***************************************************************************)
(* Image._readSW4patches: the geometry of one patch                        *)
(***************************************************************************)
\* ExtentXY as a bug would have it: the half cell taken off the upper x edge
ExtentXY_minus(h, zmin, ni, nj) ==
    << Whole(0) - Half(h),
       Whole((ni - 1) * h) - Half(h),
       Whole(zmin) - Half(h),
       Whole(zmin) + Whole((nj - 1) * h) + Half(h) >>

\* patch.extent for self._plane in (0, 1)
ExtentXY(h, zmin, ni, nj) ==
    << Whole(0) - Half(h),
       Whole((ni - 1) * h) + Half(h),
       Whole(zmin) - Half(h),
       Whole(zmin) + Whole((nj - 1) * h) + Half(h) >>

\* patch.extent for self._plane == 2
ExtentZ(h, zmin, ni, nj) ==
    << Whole(0) - Half(h),
       Whole((nj - 1) * h) + Half(h),
       Whole(0) - Half(h),
       Whole((ni - 1) * h) + Half(h) >>

\* the orientation branch: data and extent of the patch by self._plane
Oriented(patch, plane) ==
    IF plane \in {0, 1}
    THEN [patch EXCEPT
            !.extent = ExtentXY(patch.h, patch.zmin, patch.ni, patch.nj)]
    ELSE IF plane = 2
    THEN [patch EXCEPT
            !.data = transpose(patch.data),
            !.extent = ExtentZ(patch.h, patch.zmin, patch.ni, patch.nj)]
    ELSE patch

\* the Patch of loop index number, built from its descriptor and its
\* reshaped buffer, before the statistics
DecodedPatch(number, item, grid, plane) ==
    Oriented([PatchInit EXCEPT !.number = number,
                               !.h = item.h, !.zmin = item.zmin,
                               !.ib = item.ib, !.ni = item.ni,
                               !.jb = item.jb, !.nj = item.nj,
                               !.data = grid],
             plane)

\* SampleCount as a bug would have it: patch.ni*patch.ni
SampleCount_square(item) == item.ni * item.ni

\* the number of samples asked for: patch.ni*patch.nj
SampleCount(item) == item.ni * item.nj

WithStatistics(patch, data) ==
    [patch EXCEPT !.min = np_min(data), !.max = np_max(data),
                  !.std = np_std2(data), !.rms = np_meansq(data)]

(***************************************************************************)
(* parse_filename                                                          *)
(***************************************************************************)
\* What read uses of the result: whether the call raised (a name without
\* the three dots or the '=' the splits expect), the cycle, and is_SW4.
\* name, plane, coordinate and mode stay locals of read.
parse_filename(filename) ==
    [raised |-> ~filename.wellformed,
     cycle |-> filename.cycle,
     is_SW4 |-> filename.extention = ".sw4img"]

(***************************************************************************)
(* read: the 'random' branch                                               *)
(***************************************************************************)
rand_ni == 100
rand_nj == 200
rand_h == 100
rand_zmin == 0

\* a statistic of the random grid, known only by the draw it comes from
RandomStat(name, seed) == <<name, seed>>

RandomPatch(seed) ==
    [PatchInit EXCEPT
        !.data = [shape |-> <<rand_ni, rand_nj>>, rows |-> <<>>, rand |-> seed],
        !.ni = rand_ni,
        !.nj = rand_nj,
        !.number = 0,
        !.h = rand_h,
        !.zmin = rand_zmin,
        !.extent = << Whole(0), Whole(rand_nj * rand_h),
                      Whole(rand_zmin + rand_ni * rand_h), Whole(rand_zmin) >>,
        !.min = RandomStat("min", seed),
        !.max = RandomStat("max", seed),
        !.std = RandomStat("std", seed),
        !.rms = RandomStat("rms", seed)]

(***************************************************************************)
(* read: the lookups of lines 220-222                                      *)
(***************************************************************************)
\* ResolveCodes as a bug would have it: the plane looked up with
\* dict.get(key, key), which lets an unknown key through
ResolveCodes_get(img) ==
    IF DictKey(img.precision) \notin DOMAIN prec_dict
    THEN [raised |-> TRUE, img |-> img]
    ELSE LET img1 == [img EXCEPT !.precision = prec_dict[DictKey(@)]]
             img2 == [img1 EXCEPT
                        !.plane = IF DictKey(@) \in DOMAIN SW4_plane_dict
                                  THEN SW4_plane_dict[DictKey(@)] ELSE @]
         IN  IF DictKey(img2.mode) \notin DOMAIN SW4_mode_dict
             THEN [raised |-> TRUE, img |-> img2]
             ELSE [raised |-> FALSE,
                   img |-> [img2 EXCEPT
                       !.mode = SW4_mode_dict[DictKey(img2.mode)][1],
                       !.unit = SW4_mode_dict[DictKey(img2.mode)][2]]]

\* The three table lookups in order.  Each is keyed by the attribute the
\* code names: image.precision, image.plane, image.mode.  A missing key
\* raises KeyError and leaves the later assignments undone.
ResolveCodes(img) ==
    IF DictKey(img.precision) \notin DOMAIN prec_dict
    THEN [raised |-> TRUE, img |-> img]
    ELSE LET img1 == [img EXCEPT !.precision = prec_dict[DictKey(@)]]
         IN  IF DictKey(img1.plane) \notin DOMAIN SW4_plane_dict
             THEN [raised |-> TRUE, img |-> img1]
             ELSE LET img2 == [img1 EXCEPT
                                 !.plane = SW4_plane_dict[DictKey(@)]]
                  IN  IF DictKey(img2.mode) \notin DOMAIN SW4_mode_dict
                      THEN [raised |-> TRUE, img |-> img2]
                      ELSE [raised |-> FALSE,
                            img |-> [img2 EXCEPT
                                !.mode = SW4_mode_dict[DictKey(img2.mode)][1],
                                !.unit = SW4_mode_dict[DictKey(img2.mode)][2]]]

(***************************************************************************)
(* Initial states                                                          *)
(***************************************************************************)
NoCall == [entry |-> "none", filename |-> CHOOSE n \in Filenames : n.kind = "None"]

\* nothing has been called yet
InitIdle ==
    /\ pc = "idle"
    /\ call = NoCall
    /\ image = 0
    /\ images = <<>>
    /\ lists = <<>>
    /\ patchObjs = <<>>
    /\ f = NoFile

\* Image._readSW4patches is entered on an Image whose header fields were
\* unpacked by _readSW4hdr and whose precision is resolved, with the read
\* cursor right after the header.
InitDecoder ==
    /\ pc = "patches"
    /\ call = [NoCall EXCEPT !.entry = "_readSW4patches"]
    /\ image = 0
    /\ \E header \in Headers :
          /\ DictKey(header.precision) \in DOMAIN prec_dict
          /\ header.mode = 1
          /\ images = (0 :> [WithHeader(ImageInit(0), header) EXCEPT
                               !.precision = prec_dict[DictKey(@)]])
    /\ lists = (NewPatchesList(0) :> <<>>)
    /\ patchObjs = <<>>
    /\ f = [state |-> "open", pos |-> HeaderBytes, eof |-> FALSE]

Init ==
    /\ InitIdle \/ InitDecoder
    /\ ncalls = 0
    /\ patch_info = <<>>
    /\ i = 0
    /\ exc = "none"
    /\ result = "none"
    /\ returned = <<>>
    /\ log = <<>>

(***************************************************************************)
(* read                                                                    *)
(***************************************************************************)
\* the objects still reachable from the Images read has returned
LiveLists == {images[id].patches : id \in Range(returned)}
LivePatches == UNION {Range(lists[l]) : l \in LiveLists}

\* read(filename): image = Image(); image.filename = filename
CallRead ==
    /\ pc \in {"idle", "done"}
    /\ ncalls < MaxCalls
    /\ \E filename \in Filenames :
          /\ call' = [entry |-> "read", filename |-> filename]
          /\ images' = (ncalls + 1 :> [ImageInit(ncalls + 1) EXCEPT
                                          !.filename = filename])
                       @@ Restrict(images, Range(returned))
    /\ ncalls' = ncalls + 1
    /\ image' = ncalls + 1
    /\ lists' = Restrict(lists, LiveLists)
                @@ (ImageInit(ncalls + 1).patches :> <<>>)
    /\ patchObjs' = Restrict(patchObjs, LivePatches)
    /\ f' = NoFile
    /\ patch_info' = <<>>
    /\ i' = 0
    /\ exc' = "none"
    /\ result' = "none"
    /\ log' = <<>>
    /\ pc' = "dispatch"
    /\ UNCHANGED returned

\* filename is 'random'
ReadRandom ==
    /\ pc = "dispatch"
    /\ call.filename.kind = "random"
    /\ \E seed \in Seeds :
          LET id == NewPatchId
          IN  /\ patchObjs' = (id :> RandomPatch(seed)) @@ patchObjs
              /\ lists' = [lists EXCEPT
                             ![images[image].patches] = ListExtend(@, id)]
    /\ pc' = "return"
    /\ UNCHANGED <<call, ncalls, image, images, f, patch_info, i, exc,
                   result, returned, log>>

\* filename is None
ReadNone ==
    /\ pc = "dispatch"
    /\ call.filename.kind = "None"
    /\ pc' = "return"
    /\ UNCHANGED <<call, ncalls, image, images, lists, patchObjs, f,
                   patch_info, i, exc, result, returned, log>>

\* any other filename: parse_filename, then the is_SW4 test
ParseFilename ==
    /\ pc = "dispatch"
    /\ call.filename.kind = "path"
    /\ LET parsed == parse_filename(call.filename)
       IN  IF parsed.raised
           THEN /\ pc' = "done"
                /\ result' = "ValueError"
                /\ UNCHANGED images
           ELSE /\ images' = [images EXCEPT ![image].cycle = parsed.cycle]
                /\ pc' = IF parsed.is_SW4 THEN "open" ELSE "return"
                /\ UNCHANGED result
    /\ UNCHANGED <<call, ncalls, image, lists, patchObjs, f, patch_info, i,
                   exc, returned, log>>

\* open(image.filename, 'rb'): a file object at offset 0
OpenOk ==
    /\ pc = "open"
    /\ f' = [state |-> "open", pos |-> 0, eof |-> FALSE]
    /\ pc' = "hdr"
    /\ UNCHANGED <<call, ncalls, image, images, lists, patchObjs,
                   patch_info, i, exc, result, returned, log>>

\* open(image.filename, 'rb') raises: there is no such file
OpenFails ==
    /\ pc = "open"
    /\ pc' = "done"
    /\ result' = "IOError"
    /\ UNCHANGED <<call, ncalls, image, images, lists, patchObjs, f,
                   patch_info, i, exc, returned, log>>

\* image._readSW4hdr(f): np.fromfile(f, SW4_header_dtype, 1)[0]
ReadSW4hdr ==
    /\ pc = "hdr"
    /\ \E got \in Available(f, 1) :
          /\ f' = Advance(f, got, HeaderBytes, 1)
          /\ IF got = 0
             THEN \* [0] of an empty array
                  /\ log' = Append(log, FromfileEvent("header", f,
                                                      HeaderBytes, 1, <<>>))
                  /\ exc' = "IndexError"
                  /\ pc' = "leave"
                  /\ UNCHANGED images
             ELSE /\ \E header \in Headers :
                        /\ images' = [images EXCEPT
                                        ![image] = WithHeader(@, header)]
                        /\ log' = Append(log, FromfileEvent("header", f,
                                             HeaderBytes, 1, <<header>>))
                  /\ pc' = "resolve"
                  /\ UNCHANGED exc
    /\ UNCHANGED <<call, ncalls, image, lists, patchObjs, patch_info, i,
                   result, returned>>

\* lines 220-222
Resolve ==
    /\ pc = "resolve"
    /\ LET r == ResolveCodes(images[image])
       IN  /\ images' = [images EXCEPT ![image] = r.img]
           /\ exc' = IF r.raised THEN "KeyError" ELSE "none"
           /\ pc' = IF r.raised THEN "leave" ELSE "patches"
    /\ UNCHANGED <<call, ncalls, image, lists, patchObjs, f, patch_info, i,
                   result, returned, log>>

(***************************************************************************)
(* Image._readSW4patches                                                   *)
(***************************************************************************)
\* patch_info = np.fromfile(f, SW4_patch_dtype, self.number_of_patches):
\* one call reads the descriptors of all patches
ReadPatchInfo ==
    /\ pc = "patches"
    /\ LET count == images[image].number_of_patches
       IN  \E got \in Available(f, count) :
              /\ patch_info' \in [1 .. got -> Descriptors]
              /\ f' = Advance(f, got, PatchDescBytes, count)
              /\ log' = Append(log, FromfileEvent("descriptors", f,
                                                  PatchDescBytes, count,
                                                  patch_info'))
    /\ i' = 0
    /\ pc' = "loop"
    /\ UNCHANGED <<call, ncalls, image, images, lists, patchObjs, exc,
                   result, returned>>

\* one pass of the loop body, lines 67-95
PatchIter ==
    /\ pc = "loop"
    /\ i < Len(patch_info)
    /\ LET self == images[image]
           item == patch_info[i + 1]
           count == SampleCount(item)
           size == ItemSize(self.precision)
       IN  \E got \in Available(f, count), base \in SampleBases :
              LET data == Buffer(base, got)
                  shaped == reshape(data, item.nj, item.ni)
                  patch == DecodedPatch(i, item, shaped.grid, self._plane)
                  id == NewPatchId
              IN  /\ f' = Advance(f, got, size, count)
                  /\ log' = Append(log, FromfileEvent("samples", f, size,
                                                      count, data))
                  /\ IF ~shaped.ok \/ Len(data) = 0
                     THEN \* reshape, or min() of an empty array, raises
                          /\ exc' = "ValueError"
                          /\ pc' = "leave"
                          /\ UNCHANGED <<patchObjs, lists, i>>
                     ELSE /\ patchObjs' =
                                (id :> WithStatistics(patch, data)) @@ patchObjs
                          /\ lists' = [lists EXCEPT
                                         ![self.patches] = ListExtend(@, id)]
                          /\ i' = i + 1
                          /\ UNCHANGED <<exc, pc>>
    /\ UNCHANGED <<call, ncalls, image, images, patch_info, result, returned>>

\* the loop has consumed patch_info: the method returns
PatchesDone ==
    /\ pc = "loop"
    /\ i = Len(patch_info)
    /\ pc' = "leave"
    /\ UNCHANGED <<call, ncalls, image, images, lists, patchObjs, f,
                   patch_info, i, exc, result, returned, log>>

(***************************************************************************)
(* Leaving                                                                 *)
(***************************************************************************)
\* Control leaves the code that works on the open file, normally or with
\* the exception in flight.  In read that code is the body of the with
\* statement of line 218; a direct caller of _readSW4patches keeps its
\* file object.
Leave ==
    /\ pc = "leave"
    /\ f' = IF call.entry = "read" THEN CloseOnExit(f, exc # "none") ELSE f
    /\ IF exc # "none"
       THEN /\ pc' = "done"
            /\ result' = exc
       ELSE IF call.entry = "read"
       THEN /\ pc' = "return"
            /\ UNCHANGED result
       ELSE /\ pc' = "done"
            /\ result' = "ok"
    /\ UNCHANGED <<call, ncalls, image, images, lists, patchObjs,
                   patch_info, i, exc, returned, log>>

\* return image
Return ==
    /\ pc = "return"
    /\ returned' = Append(returned, image)
    /\ result' = "image"
    /\ pc' = "done"
    /\ UNCHANGED <<call, ncalls, image, images, lists, patchObjs, f,
                   patch_info, i, exc, log>>

Next ==
    \/ CallRead
    \/ ReadRandom
    \/ ReadNone
    \/ ParseFilename
    \/ OpenOk
    \/ OpenFails
    \/ ReadSW4hdr
    \/ Resolve
    \/ ReadPatchInfo
    \/ PatchIter
    \/ PatchesDone
    \/ Leave
    \/ Return

Spec == Init /\ [][Next]_vars

(***************************************************************************)
(* Vocabulary of the properties                                            *)
(***************************************************************************)
IsSamples(e) == e.what = "samples"
IsDescriptors(e) == e.what = "descriptors"
SampleEvents == SelectSeq(log, IsSamples)
DescEvents == SelectSeq(log, IsDescriptors)

\* the running call works on an Image whose header fields are set
Decoding == image \in DOMAIN images /\ "_plane" \in DOMAIN images[image]

\* the running call has ended and handed its Image to the caller
Delivered == pc = "done" /\ result \in {"image", "ok"}

\* a np.fromfile call of the patch decoder came back short
ShortRead ==
    \E k \in 1 .. Len(log) :
        log[k].what \in {"descriptors", "samples"} /\ log[k].got < log[k].count

\* the running call is a read that has decoded a header record
HeaderDecoded ==
    /\ call.entry = "read"
    /\ Len(log) >= 1
    /\ log[1].what = "header"
    /\ log[1].got = 1

\* the header record the running read has decoded
FileHeader == log[1].items[1]

NativePath(filename) ==
    filename.kind = "path" /\ filename.extention = ".sw4img"

\* a Patch whose data came from a file, not from np.random
FromFile(patch) == patch.data.rand = 0

\* the number of elements of a grid
ElementCount(grid) == SeqSum([r \in 1 .. Len(grid.rows) |-> Len(grid.rows[r])])

ExtentOrdered(patch) ==
    patch.extent[1] < patch.extent[2] /\ patch.extent[3] < patch.extent[4]

(***************************************************************************)
(* C1                                                                      *)
(***************************************************************************)
\* C1 as stated: every Image read has returned, for any of the four kinds
\* of filename, holds as many patches as its number_of_patches says.
C1_LenEqualsDeclared ==
    \A id \in Range(returned) :
        Len(PatchesOf(id)) = images[id].number_of_patches

\* C1, amended: the 'random' Image holds one patch and declares one; an
\* Image returned for None or for a non-native path holds no patch and
\* declares the default 1; and whenever the patch decoder has ended
\* normally on a stream that held all the declared descriptors, the Image
\* holds number_of_patches patches.
C1_LenByVariant ==
    /\ \A id \in Range(returned) :
          LET img == images[id]
          IN  /\ img.filename.kind = "random" =>
                    /\ Len(PatchesOf(id)) = 1
                    /\ img.number_of_patches = 1
              /\ (img.filename.kind = "None" \/
                  (img.filename.kind = "path" /\ ~NativePath(img.filename))) =>
                    /\ Len(PatchesOf(id)) = 0
                    /\ img.number_of_patches = 1
    /\ (Delivered /\ Decoding /\ ~ShortRead) =>
          Len(PatchesOf(image)) = images[image].number_of_patches

\* read has returned a 'random' Image and then an Image for None
C1_Witness ==
    /\ Len(returned) = 2
    /\ images[returned[1]].filename.kind = "random"
    /\ images[returned[2]].filename.kind = "None"

(***************************************************************************)
(* C2                                                                      *)
(***************************************************************************)
\* C2: when the stream ends before all declared descriptors or all ni*nj
\* samples of a patch were read, the call fails; it never hands over an
\* Image with fewer patches or samples than declared.
C2_NoSilentTruncation ==
    (pc = "done" /\ ShortRead) => result \notin {"image", "ok"}

(***************************************************************************)
(* C3                                                                      *)
(***************************************************************************)
\* C3: a read of a native file whose header carries a plane code outside
\* the plane table ends in KeyError and returns no Image.
C3_UnknownPlaneFails ==
    (HeaderDecoded /\ DictKey(FileHeader.plane) \notin DOMAIN SW4_plane_dict)
    => /\ image \notin Range(returned)
       /\ pc = "done" => result = "KeyError"

\* a read has ended on a header with plane code 9 whose other codes are
\* in their tables
C3_Witness ==
    /\ HeaderDecoded
    /\ pc = "done"
    /\ FileHeader.plane = 9
    /\ DictKey(FileHeader.precision) \in DOMAIN prec_dict
    /\ DictKey(FileHeader.mode) \in DOMAIN SW4_mode_dict
    /\ result = "KeyError"

(***************************************************************************)
(* C4                                                                      *)
(***************************************************************************)
\* C4: a read of a native file whose header codes all have table entries
\* does not fail in a lookup, and the Image it returns has plane equal to
\* the plane table's entry for the header's plane code.
C4_PlaneFromHeader ==
    (/\ HeaderDecoded
     /\ pc = "done"
     /\ DictKey(FileHeader.precision) \in DOMAIN prec_dict
     /\ DictKey(FileHeader.plane) \in DOMAIN SW4_plane_dict
     /\ DictKey(FileHeader.mode) \in DOMAIN SW4_mode_dict)
    => /\ result # "KeyError"
       /\ result = "image" =>
             images[image].plane = SW4_plane_dict[DictKey(FileHeader.plane)]

(***************************************************************************)
(* C5                                                                      *)
(***************************************************************************)
\* the offset at which the descriptor of the k-th patch (k = 1, 2, ...) was
\* read: the descriptors are consecutive items of one np.fromfile call
DescriptorAt(k) == DescEvents[1].at + (k - 1) * PatchDescBytes

\* the offset right after the samples the read for the k-th patch consumed
SamplesEnd(k) ==
    SampleEvents[k].at + SampleEvents[k].got * SampleEvents[k].itemsize

\* C5 as stated: from the second patch on, the descriptor of a patch is
\* read right after the sample buffer of the patch before it, and its own
\* sample buffer right after that descriptor.
C5_Interleaved ==
    \A k \in 2 .. Len(SampleEvents) :
        /\ DescriptorAt(k) = SamplesEnd(k - 1)
        /\ SampleEvents[k].at = DescriptorAt(k) + PatchDescBytes

\* C5, amended: the descriptors of all patches are read first, by one
\* call that asks for number_of_patches items at the offset right after
\* the header; the sample buffers follow that block in patch order, the
\* first right after the last descriptor read, each later one right after
\* the samples read before it, and each asks for ni*nj samples of its
\* patch.
C5_DescriptorsThenSamples ==
    /\ Len(DescEvents) <= 1
    /\ Len(SampleEvents) > 0 => Len(DescEvents) = 1
    /\ \A d \in 1 .. Len(DescEvents) :
          /\ DescEvents[d].at = HeaderBytes
          /\ DescEvents[d].count = images[image].number_of_patches
          /\ DescEvents[d].items = patch_info
    /\ \A k \in 1 .. Len(SampleEvents) :
          /\ k <= Len(patch_info)
          /\ SampleEvents[k].count = patch_info[k].ni * patch_info[k].nj
          /\ SampleEvents[k].itemsize = ItemSize(images[image].precision)
          /\ SampleEvents[k].at =
                IF k = 1
                THEN HeaderBytes + Len(patch_info) * PatchDescBytes
                ELSE SamplesEnd(k - 1)

\* two patches with non-empty buffers have been decoded
C5_Witness ==
    /\ Delivered
    /\ Len(SampleEvents) = 2
    /\ SampleEvents[1].got > 0
    /\ SampleEvents[2].got = SampleEvents[2].count

(***************************************************************************)
(* C6                                                                      *)
(***************************************************************************)
\* the k-th patch of the running decoder against its descriptor and the raw
\* buffer read for it, extents in half units
GridAndExtent(k) ==
    LET patch == patchObjs[PatchesOf(image)[k]]
        d == patch_info[k]
        raw == SampleEvents[k].items
        plane == images[image]._plane
    IN  /\ plane \in {0, 1} =>
            /\ patch.data.shape = <<d.nj, d.ni>>
            /\ \A r \in 0 .. d.nj - 1, c \in 0 .. d.ni - 1 :
                   patch.data.rows[r + 1][c + 1] = raw[r * d.ni + c + 1]
            /\ patch.extent = << -d.h, (2 * d.ni - 1) * d.h,
                                 2 * d.zmin - d.h,
                                 2 * d.zmin + (2 * d.nj - 1) * d.h >>
        /\ plane = 2 =>
            /\ patch.data.shape = <<d.ni, d.nj>>
            /\ \A r \in 0 .. d.nj - 1, c \in 0 .. d.ni - 1 :
                   patch.data.rows[c + 1][r + 1] = raw[r * d.ni + c + 1]
            /\ patch.extent = << -d.h, (2 * d.nj - 1) * d.h,
                                 -d.h, (2 * d.ni - 1) * d.h >>

\* C6: a patch decoded from descriptor (h, zmin, ni, nj) and raw buffer
\* raw has, for plane X or Y, a grid of nj rows and ni columns with raw
\* sample r*ni + c at row r, column c, and extent (-h/2, (ni-1)h + h/2,
\* zmin - h/2, zmin + (nj-1)h + h/2); for plane Z the transposed grid, of
\* ni rows and nj columns, and extent (-h/2, (nj-1)h + h/2, -h/2,
\* (ni-1)h + h/2).
C6_GridAndExtent ==
    Decoding => \A k \in 1 .. Len(PatchesOf(image)) : GridAndExtent(k)

(***************************************************************************)
(* C7                                                                      *)
(***************************************************************************)
\* C7 as stated: every Patch of every Image read has returned has
\* xMin < xMax and yMin < yMax.
C7_ExtentOrderedAlways ==
    \A id \in Range(returned) :
        \A p \in Range(PatchesOf(id)) : ExtentOrdered(patchObjs[p])

\* C7, amended: every Patch the patch decoder has appended whose spacing h
\* is positive and whose ni and nj are at least 1 has xMin < xMax and
\* yMin < yMax; the Patch of the 'random' variant has extent
\* (0, 20000, 10000, 0): xMin < xMax, but yMin > yMax.
C7_ExtentOrderedIfPositiveSpacing ==
    \A p \in DOMAIN patchObjs :
        LET patch == patchObjs[p]
        IN  /\ (FromFile(patch) /\ patch.h > 0 /\ patch.ni >= 1 /\ patch.nj >= 1)
                  => ExtentOrdered(patch)
            /\ ~FromFile(patch) =>
                  /\ patch.extent = <<0, 40000, 20000, 0>>
                  /\ patch.extent[1] < patch.extent[2]
                  /\ patch.extent[3] > patch.extent[4]

\* a decoded patch of one column with positive spacing, in plane X
C7_Witness ==
    /\ Delivered
    /\ Decoding
    /\ images[image]._plane = 0
    /\ \E p \in Range(PatchesOf(image)) :
          /\ patchObjs[p].h > 0
          /\ patchObjs[p].ni = 1
          /\ patchObjs[p].nj = 2

(***************************************************************************)
(* C8                                                                      *)
(***************************************************************************)
\* the k-th patch of the running decoder holds ni*nj elements, in the rows
\* and columns its plane asks for
ElementCountOf(k) ==
    LET patch == patchObjs[PatchesOf(image)[k]]
        d == patch_info[k]
        rows == IF images[image]._plane = 2 THEN d.ni ELSE d.nj
        cols == IF images[image]._plane = 2 THEN d.nj ELSE d.ni
    IN  /\ patch.ni = d.ni
        /\ patch.nj = d.nj
        /\ ElementCount(patch.data) = patch.ni * patch.nj
        /\ Len(patch.data.rows) = rows
        /\ \A r \in 1 .. rows : Len(patch.data.rows[r]) = cols

\* C8: every patch decoded from a file holds ni*nj elements, in a grid of
\* nj rows of ni elements for planes X and Y and of ni rows of nj elements
\* for plane Z, where ni and nj are those of its descriptor, whatever
\* descriptor the file carries.
C8_ElementCount ==
    Decoding => \A k \in 1 .. Len(PatchesOf(image)) : ElementCountOf(k)

\* Where ni and nj are both non-negative, the decoded patch has the grid,
\* the extent and the element count of C6 and C8.
DecodedOnGrids ==
    Decoding =>
    \A k \in 1 .. Len(PatchesOf(image)) :
        (patch_info[k].ni >= 0 /\ patch_info[k].nj >= 0) =>
            GridAndExtent(k) /\ ElementCountOf(k)

\* a patch decoded from a descriptor with ni = -1: all the samples the
\* stream still held, fitted into nj rows
NegativeDimDecoded ==
    /\ Delivered
    /\ Decoding
    /\ \E k \in 1 .. Len(PatchesOf(image)) : patch_info[k].ni < 0

(***************************************************************************)
(* C9                                                                      *)
(***************************************************************************)
\* C9: when a read has ended, by returning or by failing, the file it
\* opened is closed; and a read of 'random', of None, or of a non-native
\* path never opens a file.
C9_FileClosedOnExit ==
    call.entry = "read" =>
        /\ pc \in {"done", "return"} => f.state # "open"
        /\ ~NativePath(call.filename) => f.state = "none"

\* a read of a native file has failed in a lookup, its file closed
C9_Witness ==
    /\ call.entry = "read"
    /\ pc = "done"
    /\ result = "KeyError"
    /\ f.state = "closed"

(***************************************************************************)
(* C10                                                                     *)
(***************************************************************************)
\* the Images that own patches: those returned and the one in the making
Owners == Range(returned) \cup (IF pc = "idle" THEN {} ELSE {image})

NoSharing ==
    \A a, b \in Owners :
        a # b =>
            /\ images[a].patches # images[b].patches
            /\ Range(PatchesOf(a)) \cap Range(PatchesOf(b)) = {}

\* all there is to see of Image id: its fields, its list, its Patches
Snapshot(id) ==
    << images[id], PatchesOf(id),
       [p \in Range(PatchesOf(id)) |-> patchObjs[p]] >>

ReturnedUnchanged ==
    \A id \in Range(returned) :
        /\ id \in Range(returned')
        /\ Snapshot(id)' = Snapshot(id)

\* C10: no two Images share a patches list or a Patch, and no step of a
\* later call changes the fields, the list or the Patches of an Image
\* that read has returned.
C10_Independent == [](NoSharing) /\ [][ReturnedUnchanged]_vars

\* two reads have returned Images with a patch each
C10_Witness ==
    /\ Len(returned) = 2
    /\ pc = "done"
    /\ Len(PatchesOf(returned[1])) = 1
    /\ Len(PatchesOf(returned[2])) = 1

====
